---- MODULE Spec2Model ----
(***************************************************************************)
(* Model of the vLLM helper scripts: the server utilities of               *)
(* vllm_server.py (check_server_health, wait_for_server_ready,             *)
(* get_server_status, test_inference and the command-line entry point)     *)
(* and the chat client of client_example.py (VLLMClient).                  *)
(*                                                                         *)
(* The remote server is the environment: every HTTP call draws its outcome *)
(* (a response with a status code and a body, or an exception raised by    *)
(* the requests library) from a small set.  Python dicts are functions     *)
(* whose domain is the set of keys present, so dict.get(k, d) and d[k]     *)
(* differ exactly as they do in the code (default versus KeyError).        *)
(***************************************************************************)
EXTENDS Integers, Sequences, FiniteSets, TLC

(***************************************************************************)
(* Bounds of the model.                                                    *)
(***************************************************************************)
MaxTimeout == 3      \* largest timeout (seconds) given to wait_for_server_ready
MaxInterval == 2     \* largest check_interval (seconds)
MaxLines == 3        \* most lines a streaming response delivers
MaxDur == 1          \* longest time (seconds) one health check takes

(***************************************************************************)
(* Python values.                                                          *)
(***************************************************************************)
EmptyDict == [k \in {} |-> 0]

\* dict.get(key, default)
Get(d, k, default) == IF k \in DOMAIN d THEN d[k] ELSE default

\* Results of a call: a returned value or a propagated exception.
RetBool(b) == [kind |-> "bool", val |-> b]
RetDict(d) == [kind |-> "dict", val |-> d]
RetStr(s) == [kind |-> "str", val |-> s]
Raise(e) == [kind |-> "raise", val |-> e]
Exit(c) == [kind |-> "exit", val |-> c]
RetNone == [kind |-> "None", val |-> 0]
StopIteration == [kind |-> "stop", val |-> 0]
NoRet == [kind |-> "none", val |-> 0]

\* Python's None as an argument value.
None == "<None>"

\* Exceptions an HTTP call can raise.  ConnectionError, Timeout and
\* InvalidURL are requests exceptions; ValueError stands for an exception
\* that is not one (requests raises it, for instance, for a timeout <= 0).
HttpExceptions == {"ConnectionError", "Timeout", "InvalidURL", "ValueError"}

\* The classes of requests.RequestException, as the except clauses see them.
IsRequestException(e) ==
    e \in {"ConnectionError", "Timeout", "InvalidURL", "HTTPError"}

\* str(e) of an exception.
ExcText(e) ==
    CASE e = "ConnectionError" -> "Connection refused"
      [] e = "Timeout" -> "Read timed out"
      [] e = "InvalidURL" -> "Invalid URL"
      [] e = "ValueError" -> "Timeout value must be greater than 0"
      [] e = "JSONDecodeError" -> "Expecting value"
      [] e = "KeyError_id" -> "'id'"
      [] e = "KeyError_choices" -> "'choices'"
      [] e = "IndexError" -> "list index out of range"
      [] e = "HTTPError" -> "Client or Server Error"
      [] OTHER -> e

StatusCodes == {200, 404, 503}

\* str(n) of a non-negative integer, as an f-string formats it.
Digits == <<"0", "1", "2", "3", "4", "5", "6", "7", "8", "9">>

RECURSIVE NumText(_)
NumText(n) ==
    IF n < 10 THEN Digits[n + 1] ELSE NumText(n \div 10) \o Digits[(n % 10) + 1]

(***************************************************************************)
(* GET /models: the bodies a server can answer with.  A body is either not *)
(* JSON (json() raises) or a JSON object, with or without the "data" key;  *)
(* a model entry is an object that may lack any of its fields.             *)
(***************************************************************************)
Entry1 == [id |-> "m1", created |-> 123, owned_by |-> "x"]
Entry2 == [id |-> "m2", created |-> 456]
EntryNoId == [owned_by |-> "y"]
Entries == {Entry1, Entry2, EntryNoId}

ModelLists == {<<>>} \cup {<<e>> : e \in Entries} \cup {<<Entry1, Entry2>>, <<Entry2, Entry1>>}

JsonBody(obj) == [valid |-> TRUE, obj |-> obj]
NotJson == [valid |-> FALSE, obj |-> EmptyDict]

ModelBodies == {NotJson, JsonBody(EmptyDict)} \cup {JsonBody([data |-> l]) : l \in ModelLists}

Response(c, b) == [kind |-> "resp", code |-> c, body |-> b, exc |-> "none"]
Raised(e) == [kind |-> "exc", code |-> 0, body |-> NotJson, exc |-> e]

GetOutcomes == {Response(c, b) : c \in StatusCodes, b \in ModelBodies} \cup {Raised(e) : e \in HttpExceptions}

(***************************************************************************)
(* check_server_health (vllm_server.py:12-27), on the outcome o of its one *)
(* GET /models.  Only requests exceptions are caught.                      *)
(***************************************************************************)
check_server_health(o) ==
    IF o.kind = "exc"
    THEN IF IsRequestException(o.exc) THEN RetBool(FALSE) ELSE Raise(o.exc)
    ELSE RetBool(o.code = 200)

(***************************************************************************)
(* get_server_status (vllm_server.py:74-115).                              *)
(***************************************************************************)
StatusError(status, e) == RetDict([status |-> status, error |-> ExcText(e)])

\* A variant that reports a timeout as an unexpected error instead of offline.
get_server_status_timeout_as_error(o) ==
    IF o.kind = "exc"
    THEN IF o.exc \in {"ConnectionError"}
         THEN StatusError("offline", o.exc)
         ELSE StatusError("error", o.exc)
    ELSE IF o.code = 200 /\ ~o.body.valid
    THEN StatusError("error", "JSONDecodeError")
    ELSE IF o.code = 200 /\ Get(o.body.obj, "data", <<>>) # <<>>
    THEN LET model_info == Get(o.body.obj, "data", <<>>)[1]
         IN  RetDict([status |-> "online",
                      model |-> Get(model_info, "id", "unknown"),
                      created |-> Get(model_info, "created", 0),
                      owned_by |-> Get(model_info, "owned_by", "unknown")])
    ELSE RetDict([status |-> "unknown",
                  error |-> "Unexpected response: " \o NumText(o.code)])

get_server_status(o) ==
    IF o.kind = "exc"
    THEN IF o.exc \in {"ConnectionError", "Timeout"}
         THEN StatusError("offline", o.exc)
         ELSE StatusError("error", o.exc)
    ELSE IF o.code = 200 /\ ~o.body.valid
    THEN StatusError("error", "JSONDecodeError")
    ELSE IF o.code = 200 /\ Get(o.body.obj, "data", <<>>) # <<>>
    THEN LET model_info == Get(o.body.obj, "data", <<>>)[1]
         IN  RetDict([status |-> "online",
                      model |-> Get(model_info, "id", "unknown"),
                      created |-> Get(model_info, "created", 0),
                      owned_by |-> Get(model_info, "owned_by", "unknown")])
    ELSE RetDict([status |-> "unknown",
                  error |-> "Unexpected response: " \o NumText(o.code)])

(***************************************************************************)
(* POST /chat/completions: the bodies of a non-streaming answer.           *)
(***************************************************************************)
Usage5 == [total_tokens |-> 5]
ChatFull == [choices |-> <<[message |-> [content |-> "hi"]]>>, usage |-> Usage5]
ChatNoUsage == [choices |-> <<[message |-> [content |-> "hello"]]>>]
ChatNoChoice == [choices |-> <<>>]

ChatBodies == {NotJson, JsonBody(EmptyDict), JsonBody(ChatFull), JsonBody(ChatNoUsage), JsonBody(ChatNoChoice)}

PostOutcomes == {Response(c, b) : c \in StatusCodes, b \in ChatBodies} \cup {Raised(e) : e \in HttpExceptions}

\* response.text
BodyText(b) ==
    CASE b = NotJson -> "<html>"
      [] b = JsonBody(EmptyDict) -> "{}"
      [] b = JsonBody(ChatFull) -> "{\"choices\":[{\"message\":{\"content\":\"hi\"}}],\"usage\":{\"total_tokens\":5}}"
      [] b = JsonBody(ChatNoUsage) -> "{\"choices\":[{\"message\":{\"content\":\"hello\"}}]}"
      [] b = JsonBody(ChatNoChoice) -> "{\"choices\":[]}"
      [] OTHER -> ""

\* data["choices"][0]["message"]["content"] of a parsed body: the content, or
\* the exception the subscripts raise.
ChatContent(o) ==
    IF ~o.body.valid THEN [ok |-> FALSE, exc |-> "JSONDecodeError", content |-> ""]
    ELSE IF "choices" \notin DOMAIN o.body.obj
    THEN [ok |-> FALSE, exc |-> "KeyError_choices", content |-> ""]
    ELSE IF o.body.obj["choices"] = <<>>
    THEN [ok |-> FALSE, exc |-> "IndexError", content |-> ""]
    ELSE [ok |-> TRUE, exc |-> "none", content |-> o.body.obj["choices"][1]["message"]["content"]]

(***************************************************************************)
(* test_inference (vllm_server.py:118-178) with argument model_name, on    *)
(* the outcomes oGet of the model lookup and oPost of the completion       *)
(* request.  One try block covers both requests.  The result carries the   *)
(* returned record, the requests issued and the model named in the POST.   *)
(***************************************************************************)
Failure(e) == RetDict([success |-> FALSE, error |-> ExcText(e)])

\* vllm_server.py:142-151: the model name the POST will carry, or the
\* exception that leaves the try block.
\* A variant that treats a non-200 answer of the lookup as an error.
ResolveModel_non200_fails(model_name, oGet) ==
    IF model_name # None THEN [ok |-> TRUE, name |-> model_name, exc |-> "none", gets |-> 0]
    ELSE IF oGet.kind = "exc" THEN [ok |-> FALSE, name |-> None, exc |-> oGet.exc, gets |-> 1]
    ELSE IF oGet.code # 200 THEN [ok |-> FALSE, name |-> None, exc |-> "HTTPError", gets |-> 1]
    ELSE IF ~oGet.body.valid THEN [ok |-> FALSE, name |-> None, exc |-> "JSONDecodeError", gets |-> 1]
    ELSE LET models == Get(oGet.body.obj, "data", <<>>)
         IN  IF models = <<>> THEN [ok |-> TRUE, name |-> "default", exc |-> "none", gets |-> 1]
             ELSE IF "id" \in DOMAIN models[1]
             THEN [ok |-> TRUE, name |-> models[1]["id"], exc |-> "none", gets |-> 1]
             ELSE [ok |-> FALSE, name |-> None, exc |-> "KeyError_id", gets |-> 1]

ResolveModel(model_name, oGet) ==
    IF model_name # None THEN [ok |-> TRUE, name |-> model_name, exc |-> "none", gets |-> 0]
    ELSE IF oGet.kind = "exc" THEN [ok |-> FALSE, name |-> None, exc |-> oGet.exc, gets |-> 1]
    ELSE IF oGet.code # 200 THEN [ok |-> TRUE, name |-> "default", exc |-> "none", gets |-> 1]
    ELSE IF ~oGet.body.valid THEN [ok |-> FALSE, name |-> None, exc |-> "JSONDecodeError", gets |-> 1]
    ELSE LET models == Get(oGet.body.obj, "data", <<>>)
         IN  IF models = <<>> THEN [ok |-> TRUE, name |-> "default", exc |-> "none", gets |-> 1]
             ELSE IF "id" \in DOMAIN models[1]
             THEN [ok |-> TRUE, name |-> models[1]["id"], exc |-> "none", gets |-> 1]
             ELSE [ok |-> FALSE, name |-> None, exc |-> "KeyError_id", gets |-> 1]

\* vllm_server.py:164-175: the record built from the POST's answer.
InferenceResult(oPost) ==
    IF oPost.kind = "exc" THEN Failure(oPost.exc)
    ELSE IF oPost.code = 200
    THEN LET c == ChatContent(oPost)
         IN  IF c.ok
             THEN RetDict([success |-> TRUE, response |-> c.content,
                           usage |-> Get(oPost.body.obj, "usage", EmptyDict)])
             ELSE Failure(c.exc)
    ELSE RetDict([success |-> FALSE,
                  error |-> "HTTP " \o NumText(oPost.code) \o ": " \o BodyText(oPost.body)])

\* A variant that repeats the POST once when it did not succeed.
test_inference_retry(model_name, oGet, oPost) ==
    LET m == ResolveModel(model_name, oGet)
        r == InferenceResult(oPost)
    IN  IF m.ok
        THEN [ret |-> r, gets |-> m.gets,
              posts |-> IF r.val["success"] THEN 1 ELSE 2, model |-> m.name]
        ELSE [ret |-> Failure(m.exc), gets |-> m.gets, posts |-> 0, model |-> None]

test_inference(model_name, oGet, oPost) ==
    LET m == ResolveModel(model_name, oGet)
    IN  IF m.ok
        THEN [ret |-> InferenceResult(oPost), gets |-> m.gets, posts |-> 1, model |-> m.name]
        ELSE [ret |-> Failure(m.exc), gets |-> m.gets, posts |-> 0, model |-> None]

(***************************************************************************)
(* VLLMClient._get_model_name (client_example.py:38-48).                   *)
(***************************************************************************)
\* A variant whose except clause catches requests exceptions only.
_get_model_name_narrow_except(o) ==
    IF o.kind = "exc"
    THEN IF IsRequestException(o.exc) THEN RetStr("default") ELSE Raise(o.exc)
    ELSE IF o.code = 200
    THEN IF ~o.body.valid THEN RetStr("default")
         ELSE LET models == Get(o.body.obj, "data", <<>>)
              IN  IF models # <<>>
                  THEN IF "id" \in DOMAIN models[1]
                       THEN RetStr(models[1]["id"])
                       ELSE RetStr("default")
                  ELSE RetStr("default")
    ELSE RetStr("default")

_get_model_name(o) ==
    IF o.kind = "exc" THEN RetStr("default")
    ELSE IF o.code = 200
    THEN IF ~o.body.valid THEN RetStr("default")
         ELSE LET models == Get(o.body.obj, "data", <<>>)
              IN  IF models # <<>>
                  THEN IF "id" \in DOMAIN models[1]
                       THEN RetStr(models[1]["id"])
                       ELSE RetStr("default")
                  ELSE RetStr("default")
    ELSE RetStr("default")

(***************************************************************************)
(* VLLMClient.chat (client_example.py:50-90) on the outcome of its POST:   *)
(* raise_for_status raises for a 4xx or 5xx status, every exception        *)
(* propagates.                                                             *)
(***************************************************************************)
raise_for_status(o) == 400 <= o.code /\ o.code < 600

chat(o) ==
    IF o.kind = "exc" THEN Raise(o.exc)
    ELSE IF raise_for_status(o) THEN Raise("HTTPError")
    ELSE LET c == ChatContent(o)
         IN  IF c.ok THEN RetStr(c.content) ELSE Raise(c.exc)

(***************************************************************************)
(* stream_chat (client_example.py:131-142): the lines of a streaming       *)
(* answer, as decoded text, and what the loop body does with one line.     *)
(***************************************************************************)
ChunkHe == "{\"choices\":[{\"delta\":{\"content\":\"He\"}}]}"
ChunkLlo == "{\"choices\":[{\"delta\":{\"content\":\"llo\"}}]}"
ChunkEmpty == "{\"choices\":[{\"delta\":{\"content\":\"\"}}]}"
ChunkRole == "{\"choices\":[{\"delta\":{\"role\":\"assistant\"}}]}"
ChunkStop == "{\"choices\":[{\"finish_reason\":\"stop\"}]}"
ChunkBad == "{\"choices\":"

StreamLines ==
    {"", ": ping", "data: [DONE]", "data: " \o ChunkHe, "data: " \o ChunkLlo,
     "data: " \o ChunkEmpty, "data: " \o ChunkRole, "data: " \o ChunkStop,
     "data: " \o ChunkBad}

\* json.loads on the payloads above.
json_loads(s) ==
    CASE s = ChunkHe -> JsonBody([choices |-> <<[delta |-> [content |-> "He"]]>>])
      [] s = ChunkLlo -> JsonBody([choices |-> <<[delta |-> [content |-> "llo"]]>>])
      [] s = ChunkEmpty -> JsonBody([choices |-> <<[delta |-> [content |-> ""]]>>])
      [] s = ChunkRole -> JsonBody([choices |-> <<[delta |-> [role |-> "assistant"]]>>])
      [] s = ChunkStop -> JsonBody([choices |-> <<[finish_reason |-> "stop"]>>])
      [] OTHER -> NotJson

\* str.startswith
startswith(s, prefix) ==
    Len(s) >= Len(prefix) /\ SubSeq(s, 1, Len(prefix)) = prefix

\* The body of the for loop on one line: "yield" with the fragment, "skip",
\* or "raise" with the exception.
ProcessLine(line) ==
    IF line = "" THEN [act |-> "skip", val |-> ""]
    ELSE IF ~startswith(line, "data: ") THEN [act |-> "skip", val |-> ""]
    ELSE LET data == SubSeq(line, 7, Len(line))
         IN  IF data # "[DONE]"
             THEN LET chunk == json_loads(data)
                  IN  IF ~chunk.valid THEN [act |-> "raise", val |-> "JSONDecodeError"]
                      ELSE LET content == Get(Get(chunk.obj["choices"][1], "delta", EmptyDict), "content", "")
                           IN  IF content # ""
                               THEN [act |-> "yield", val |-> content]
                               ELSE [act |-> "skip", val |-> ""]
             ELSE [act |-> "skip", val |-> ""]

(***************************************************************************)
(* State.  One call runs at a time (the code is single-threaded): op names *)
(* the operation the caller invoked, pc its position, ret its outcome once *)
(* pc = "done".  nGet and nPost count the requests the call issued, inGet  *)
(* and inPost are the outcomes of its last GET and POST, posted the model  *)
(* named in the body of its POST.  model_name is the attribute of the one  *)
(* VLLMClient object (Unset before construction).  The remaining variables *)
(* are the locals of wait_for_server_ready (clock is time.time() -         *)
(* start_time, trace the health checks and sleeps performed so far), of    *)
(* the stream_chat generator (lines read, chunks yielded), the parsed      *)
(* command line, and the lines printed on standard output.                 *)
(***************************************************************************)
VARIABLES pc, op, ret, nGet, nPost, inGet, inPost, arg_model, posted,
          model_name, timeout, check_interval, verbose, elapsed, clock, trace,
          lines, yielded, args, printed

vars == <<pc, op, ret, nGet, nPost, inGet, inPost, arg_model, posted,
          model_name, timeout, check_interval, verbose, elapsed, clock, trace,
          lines, yielded, args, printed>>

reqVars == <<nGet, nPost, inGet, inPost, arg_model, posted>>
waitVars == <<timeout, check_interval, verbose, elapsed, clock, trace>>
streamVars == <<lines, yielded>>

Unset == "<unset>"
NoOutcome == Raised("none")
NoArgs == [flags |-> {}, timeout |-> 0]

DefaultCheckInterval == 2
Flags == {"check", "wait", "status", "test"}

\* The locals of a call before it starts.
Fresh ==
    /\ op = "none"
    /\ ret = NoRet
    /\ nGet = 0
    /\ nPost = 0
    /\ inGet = NoOutcome
    /\ inPost = NoOutcome
    /\ arg_model = None
    /\ posted = None
    /\ timeout = 0
    /\ check_interval = 0
    /\ verbose = FALSE
    /\ elapsed = 0
    /\ clock = 0
    /\ trace = <<>>
    /\ lines = <<>>
    /\ yielded = <<>>
    /\ args = NoArgs
    /\ printed = <<>>

Init ==
    /\ pc = "idle"
    /\ model_name = Unset
    /\ Fresh

(***************************************************************************)
(* The caller invokes check_server_health (vllm_server.py:12-27).          *)
(***************************************************************************)
CheckServerHealth(o) ==
    /\ pc = "idle"
    /\ pc' = "done"
    /\ op' = "check_server_health"
    /\ inGet' = o
    /\ nGet' = nGet + 1
    /\ ret' = check_server_health(o)
    /\ UNCHANGED <<nPost, inPost, arg_model, posted, model_name, waitVars,
                   streamVars, args, printed>>

(***************************************************************************)
(* The caller invokes get_server_status (vllm_server.py:74-115).           *)
(***************************************************************************)
GetServerStatus(o) ==
    /\ pc = "idle"
    /\ pc' = "done"
    /\ op' = "get_server_status"
    /\ inGet' = o
    /\ nGet' = nGet + 1
    /\ ret' = get_server_status(o)
    /\ UNCHANGED <<nPost, inPost, arg_model, posted, model_name, waitVars,
                   streamVars, args, printed>>

(***************************************************************************)
(* The caller invokes test_inference (vllm_server.py:118-178) with model   *)
(* name m (None when omitted).                                             *)
(***************************************************************************)
TestInference(m, oGet, oPost) ==
    /\ pc = "idle"
    /\ LET r == test_inference(m, oGet, oPost)
       IN  /\ ret' = r.ret
           /\ nGet' = nGet + r.gets
           /\ nPost' = nPost + r.posts
           /\ inGet' = IF r.gets > 0 THEN oGet ELSE inGet
           /\ inPost' = IF r.posts > 0 THEN oPost ELSE inPost
           /\ posted' = r.model
    /\ pc' = "done"
    /\ op' = "test_inference"
    /\ arg_model' = m
    /\ UNCHANGED <<model_name, waitVars, streamVars, args, printed>>

(***************************************************************************)
(* VLLMClient(base_url) (client_example.py:28-36).                         *)
(***************************************************************************)
NewClient(o) ==
    /\ pc = "idle"
    /\ pc' = "done"
    /\ op' = "VLLMClient"
    /\ inGet' = o
    /\ nGet' = nGet + 1
    /\ LET r == _get_model_name(o)
       IN  IF r.kind = "raise"
           THEN ret' = r /\ model_name' = model_name
           ELSE ret' = RetNone /\ model_name' = r.val
    /\ UNCHANGED <<nPost, inPost, arg_model, posted, waitVars, streamVars,
                   args, printed>>

(***************************************************************************)
(* client.chat(message) (client_example.py:50-90).                         *)
(***************************************************************************)
Chat(o) ==
    /\ pc = "idle"
    /\ model_name # Unset
    /\ pc' = "done"
    /\ op' = "chat"
    /\ inPost' = o
    /\ nPost' = nPost + 1
    /\ posted' = model_name
    /\ ret' = chat(o)
    /\ UNCHANGED <<nGet, inGet, arg_model, model_name, waitVars, streamVars,
                   args, printed>>

(***************************************************************************)
(* client.stream_chat(message) (client_example.py:92-142): the POST and    *)
(* raise_for_status, then one step per line of the response, until the     *)
(* server closes the connection.                                           *)
(***************************************************************************)
StreamStart(o) ==
    /\ pc = "idle"
    /\ model_name # Unset
    /\ op' = "stream_chat"
    /\ inPost' = o
    /\ nPost' = nPost + 1
    /\ posted' = model_name
    /\ IF o.kind = "exc"
       THEN pc' = "done" /\ ret' = Raise(o.exc)
       ELSE IF raise_for_status(o)
       THEN pc' = "done" /\ ret' = Raise("HTTPError")
       ELSE pc' = "stream_iter" /\ ret' = ret
    /\ UNCHANGED <<nGet, inGet, arg_model, model_name, waitVars, streamVars,
                   args, printed>>

StreamLine(line) ==
    /\ pc = "stream_iter"
    /\ Len(lines) < MaxLines
    /\ lines' = Append(lines, line)
    /\ LET r == ProcessLine(line)
       IN  /\ yielded' = IF r.act = "yield" THEN Append(yielded, r.val) ELSE yielded
           /\ IF r.act = "raise"
              THEN pc' = "done" /\ ret' = Raise(r.val)
              ELSE pc' = pc /\ ret' = ret
    /\ UNCHANGED <<op, reqVars, model_name, waitVars, args, printed>>

StreamClose ==
    /\ pc = "stream_iter"
    /\ pc' = "done"
    /\ ret' = StopIteration
    /\ UNCHANGED <<op, reqVars, model_name, waitVars, streamVars, args, printed>>

(***************************************************************************)
(* wait_for_server_ready (vllm_server.py:50-71).  When the command line    *)
(* called it (op = "main") its outcome goes back to the entry point.       *)
(***************************************************************************)
Emit(cond, text) == IF cond THEN Append(printed, text) ELSE printed

WaitReturnPc == IF op = "main" THEN "cli_wait_ret" ELSE "done"

\* A variant of the loop test that still enters the loop at the deadline.
LoopTest_inclusive == elapsed <= timeout

\* vllm_server.py:56: while elapsed < timeout
LoopTest == elapsed < timeout

\* vllm_server.py:50-54
WaitStart(t, ci, v) ==
    /\ pc = "idle"
    /\ pc' = "wait_loop"
    /\ op' = "wait_for_server_ready"
    /\ timeout' = t
    /\ check_interval' = ci
    /\ verbose' = v
    /\ clock' = 0
    /\ elapsed' = 0
    /\ printed' = Emit(v, "Waiting for vLLM server...")
    /\ UNCHANGED <<ret, reqVars, model_name, trace, streamVars, args>>

\* vllm_server.py:56-60: the loop test passes and the health check runs,
\* taking d seconds.
WaitCheck(o, d) ==
    /\ pc = "wait_loop"
    /\ LoopTest
    /\ inGet' = o
    /\ nGet' = nGet + 1
    /\ clock' = clock + d
    /\ LET r == check_server_health(o)
       IN  IF r.kind = "raise"
           THEN /\ ret' = r
                /\ pc' = WaitReturnPc
                /\ trace' = Append(trace, [ev |-> "check", at |-> elapsed, res |-> "raise", dur |-> d])
                /\ printed' = printed
           ELSE IF r.val
           THEN /\ ret' = RetBool(TRUE)
                /\ pc' = WaitReturnPc
                /\ trace' = Append(trace, [ev |-> "check", at |-> elapsed, res |-> "true", dur |-> d])
                /\ printed' = Emit(verbose, "Server ready after " \o NumText(elapsed) \o ".0s")
           ELSE /\ ret' = ret
                /\ pc' = "wait_sleep"
                /\ trace' = Append(trace, [ev |-> "check", at |-> elapsed, res |-> "false", dur |-> d])
                /\ printed' = printed
    /\ UNCHANGED <<op, nPost, inPost, arg_model, posted, model_name, timeout,
                   check_interval, verbose, elapsed, streamVars, args>>

\* vllm_server.py:62-66
WaitSleep ==
    /\ pc = "wait_sleep"
    /\ clock' = clock + check_interval
    /\ elapsed' = clock'
    /\ trace' = Append(trace, [ev |-> "sleep", at |-> elapsed, res |-> "none", dur |-> check_interval])
    /\ printed' = Emit(verbose /\ elapsed' % 10 = 0,
                        "Still waiting... (" \o NumText(elapsed') \o "s / " \o NumText(timeout) \o "s)")
    /\ pc' = "wait_loop"
    /\ UNCHANGED <<op, ret, reqVars, model_name, timeout, check_interval,
                   verbose, streamVars, args>>

\* vllm_server.py:56, 68-71: the loop test fails.
WaitTimeout ==
    /\ pc = "wait_loop"
    /\ ~LoopTest
    /\ ret' = RetBool(FALSE)
    /\ printed' = Emit(verbose, "Server failed to start within " \o NumText(timeout) \o "s")
    /\ pc' = WaitReturnPc
    /\ UNCHANGED <<op, reqVars, model_name, waitVars, streamVars, args>>

(***************************************************************************)
(* The command-line entry point (vllm_server.py:181-250): the four action  *)
(* blocks in order.  exit(n) ends the process with code n; running off the *)
(* end of the script ends it with code 0; an uncaught exception ends it    *)
(* with a traceback.                                                       *)
(***************************************************************************)
\* Truth value of a returned dict or None.
Truthy(r) == r.kind = "dict" /\ r.val # EmptyDict

\* vllm_server.py:205
Main(flags, t) ==
    /\ pc = "idle"
    /\ pc' = "cli_check"
    /\ op' = "main"
    /\ args' = [flags |-> flags, timeout |-> t]
    /\ UNCHANGED <<ret, reqVars, model_name, waitVars, streamVars, printed>>

\* vllm_server.py:207-214
CliCheck(o) ==
    /\ pc = "cli_check"
    /\ IF "check" \in args.flags
       THEN LET r == check_server_health(o)
            IN  /\ inGet' = o
                /\ nGet' = nGet + 1
                /\ pc' = "done"
                /\ IF r.kind = "raise"
                   THEN /\ ret' = r
                        /\ printed' = Append(printed, "Checking server...")
                   ELSE IF r.val
                   THEN /\ ret' = Exit(0)
                        /\ printed' = printed \o <<"Checking server...", "Server is responding">>
                   ELSE /\ ret' = Exit(1)
                        /\ printed' = printed \o <<"Checking server...", "Server not responding">>
       ELSE /\ pc' = "cli_wait"
            /\ UNCHANGED <<inGet, nGet, ret, printed>>
    /\ UNCHANGED <<op, nPost, inPost, arg_model, posted, model_name, waitVars,
                   streamVars, args>>

\* vllm_server.py:216-218: the call of wait_for_server_ready (lines 50-54
\* of it run here).
CliWait ==
    /\ pc = "cli_wait"
    /\ IF "wait" \in args.flags
       THEN /\ pc' = "wait_loop"
            /\ timeout' = args.timeout
            /\ check_interval' = DefaultCheckInterval
            /\ verbose' = TRUE
            /\ clock' = 0
            /\ elapsed' = 0
            /\ printed' = printed \o <<"Waiting for server...", "Waiting for vLLM server...">>
       ELSE /\ pc' = "cli_status"
            /\ UNCHANGED <<timeout, check_interval, verbose, clock, elapsed, printed>>
    /\ UNCHANGED <<op, ret, reqVars, model_name, trace, streamVars, args>>

\* vllm_server.py:218-223
CliWaitRet ==
    /\ pc = "cli_wait_ret"
    /\ pc' = "done"
    /\ IF ret.kind = "raise"
       THEN UNCHANGED <<ret, printed>>
       ELSE IF ret.val
       THEN ret' = Exit(0) /\ printed' = Append(printed, "Server ready")
       ELSE ret' = Exit(1) /\ printed' = Append(printed, "Server failed to start")
    /\ UNCHANGED <<op, reqVars, model_name, waitVars, streamVars, args>>

\* vllm_server.py:225-236
CliStatus(o) ==
    /\ pc = "cli_status"
    /\ IF "status" \in args.flags
       THEN LET status == get_server_status(o)
            IN  /\ inGet' = o
                /\ nGet' = nGet + 1
                /\ IF Truthy(status)
                   THEN /\ pc' = "cli_test"
                        /\ ret' = ret
                        /\ printed' = printed \o
                              <<"Getting status...", "Status: " \o status.val["status"],
                                IF status.val["status"] = "online"
                                THEN "Model: " \o Get(status.val, "model", "unknown")
                                ELSE IF "error" \in DOMAIN status.val
                                THEN "Error: " \o status.val["error"]
                                ELSE "">>
                   ELSE /\ pc' = "done"
                        /\ ret' = Exit(1)
                        /\ printed' = printed \o <<"Getting status...", "Failed to get status">>
       ELSE /\ pc' = "cli_test"
            /\ UNCHANGED <<inGet, nGet, ret, printed>>
    /\ UNCHANGED <<op, nPost, inPost, arg_model, posted, model_name, waitVars,
                   streamVars, args>>

\* vllm_server.py:238-250
CliTest(oGet, oPost) ==
    /\ pc = "cli_test"
    /\ pc' = "done"
    /\ IF "test" \in args.flags
       THEN LET r == test_inference(None, oGet, oPost)
            IN  /\ nGet' = nGet + r.gets
                /\ nPost' = nPost + r.posts
                /\ inGet' = IF r.gets > 0 THEN oGet ELSE inGet
                /\ inPost' = IF r.posts > 0 THEN oPost ELSE inPost
                /\ posted' = r.model
                /\ IF Truthy(r.ret) /\ r.ret.val["success"]
                   THEN /\ ret' = Exit(0)
                        /\ printed' = printed \o
                              <<"Testing inference...", "Inference test successful",
                                "Response: " \o r.ret.val["response"] \o "...">>
                   ELSE /\ ret' = Exit(1)
                        /\ printed' = printed \o
                              <<"Testing inference...", "Inference test failed",
                                "Error: " \o r.ret.val["error"]>>
       ELSE /\ ret' = Exit(0)
            /\ UNCHANGED <<nGet, nPost, inGet, inPost, posted, printed>>
    /\ UNCHANGED <<op, arg_model, model_name, waitVars, streamVars, args>>

(***************************************************************************)
(* The caller takes the outcome of a finished call; the locals of the call *)
(* are gone and the next call starts afresh.  Only the client object       *)
(* outlives a call.                                                        *)
(***************************************************************************)
Finish ==
    /\ pc = "done"
    /\ pc' = "idle"
    /\ op' = "none"
    /\ ret' = NoRet
    /\ nGet' = 0
    /\ nPost' = 0
    /\ inGet' = NoOutcome
    /\ inPost' = NoOutcome
    /\ arg_model' = None
    /\ posted' = None
    /\ timeout' = 0
    /\ check_interval' = 0
    /\ verbose' = FALSE
    /\ elapsed' = 0
    /\ clock' = 0
    /\ trace' = <<>>
    /\ lines' = <<>>
    /\ yielded' = <<>>
    /\ args' = NoArgs
    /\ printed' = <<>>
    /\ UNCHANGED model_name

Next ==
    \/ \E o \in GetOutcomes : CheckServerHealth(o)
    \/ \E o \in GetOutcomes : GetServerStatus(o)
    \/ \E m \in {None, "m1"}, oGet \in GetOutcomes, oPost \in PostOutcomes : TestInference(m, oGet, oPost)
    \/ \E o \in GetOutcomes : NewClient(o)
    \/ \E o \in PostOutcomes : Chat(o)
    \/ \E o \in PostOutcomes : StreamStart(o)
    \/ \E line \in StreamLines : StreamLine(line)
    \/ StreamClose
    \/ \E t \in 0..MaxTimeout, ci \in 1..MaxInterval, v \in BOOLEAN : WaitStart(t, ci, v)
    \/ \E o \in GetOutcomes, d \in 0..MaxDur : WaitCheck(o, d)
    \/ WaitSleep
    \/ WaitTimeout
    \/ \E flags \in SUBSET Flags, t \in 0..MaxTimeout : Main(flags, t)
    \/ \E o \in GetOutcomes : CliCheck(o)
    \/ CliWait
    \/ CliWaitRet
    \/ \E o \in GetOutcomes : CliStatus(o)
    \/ \E oGet \in GetOutcomes, oPost \in PostOutcomes : CliTest(oGet, oPost)
    \/ Finish

Spec == Init /\ [][Next]_vars

(***************************************************************************)
(* Properties.                                                             *)
(***************************************************************************)
Printed(text) == \E i \in 1..Len(printed) : printed[i] = text

\* The call of wait_for_server_ready has ended (it returned or raised).
WaitEnded ==
    \/ op = "wait_for_server_ready" /\ pc = "done"
    \/ pc = "cli_wait_ret"

HealthyCheckSeen == \E i \in 1..Len(trace) : trace[i].res = "true"
NumChecks == Cardinality({i \in 1..Len(trace) : trace[i].ev = "check"})

\* ---- C1 ----------------------------------------------------------------
\* The text fragment a stream line carries in delta.content ("" if none).
DeltaContent(line) ==
    CASE line = "data: " \o ChunkHe -> "He"
      [] line = "data: " \o ChunkLlo -> "llo"
      [] OTHER -> ""

RECURSIVE FragmentsBeforeDone(_)
FragmentsBeforeDone(ls) ==
    IF ls = <<>> \/ Head(ls) = "data: [DONE]" THEN <<>>
    ELSE IF DeltaContent(Head(ls)) # ""
    THEN <<DeltaContent(Head(ls))>> \o FragmentsBeforeDone(Tail(ls))
    ELSE FragmentsBeforeDone(Tail(ls))

\* C1 (as claimed): in stream_chat a line "data: [DONE]" ends the iteration:
\* whatever lines the response delivers, the chunks yielded are exactly the
\* non-empty delta.content fragments of the lines before the first [DONE]
\* line, and nothing that arrives after it is yielded.
C1_DoneTerminatesIteration ==
    (op = "stream_chat" /\ ret.kind # "raise")
        => yielded = FragmentsBeforeDone(lines)

\* ---- C2 ----------------------------------------------------------------
LookupAnswerUnusable(o) ==
    \/ o.kind = "resp" /\ o.code # 200
    \/ o.kind = "resp" /\ o.code = 200 /\ o.body.valid /\ Get(o.body.obj, "data", <<>>) = <<>>

LookupRaised(o) ==
    \/ o.kind = "exc"
    \/ o.kind = "resp" /\ o.code = 200 /\ ~o.body.valid
    \/ o.kind = "resp" /\ o.code = 200 /\ o.body.valid
        /\ Get(o.body.obj, "data", <<>>) # <<>>
        /\ "id" \notin DOMAIN Get(o.body.obj, "data", <<>>)[1]

\* C2 (as claimed): test_inference called without model_name falls back to
\* "default" and still issues the POST with model = "default" on every
\* failure of the lookup: a non-200 status, an empty model list, or an
\* exception raised by the lookup.
C2_AnyLookupFailureFallsBack ==
    (op = "test_inference" /\ pc = "done" /\ arg_model = None
        /\ (LookupAnswerUnusable(inGet) \/ inGet.kind = "exc"))
        => (nPost = 1 /\ posted = "default")

\* C2 (amended): without model_name, a non-200 status or an HTTP 200 answer
\* with an empty model list makes test_inference POST with model "default";
\* an exception raised during the lookup (by the request, by parsing the
\* body, or by a first entry without an id) ends the call without a POST,
\* returning success = false with the text of the exception.
C2_FallbackOnlyOnAnswer ==
    (op = "test_inference" /\ pc = "done" /\ arg_model = None)
        => /\ nGet = 1
           /\ LookupAnswerUnusable(inGet) => (nPost = 1 /\ posted = "default")
           /\ LookupRaised(inGet) =>
                /\ nPost = 0
                /\ posted = None
                /\ ret.kind = "dict"
                /\ ret.val["success"] = FALSE
                /\ inGet.kind = "exc" => ret.val["error"] = ExcText(inGet.exc)

C2_Witness ==
    /\ op = "test_inference" /\ pc = "done" /\ arg_model = None
    /\ inGet.kind = "resp" /\ inGet.code = 404
    /\ nPost = 1 /\ posted = "default"

\* ---- C3 ----------------------------------------------------------------
\* C3 (as claimed): check_server_health, get_server_status and
\* test_inference never raise: whatever the HTTP call does, each returns a
\* value (a boolean or a record).
C3_ProbesNeverRaise ==
    (op \in {"check_server_health", "get_server_status", "test_inference"} /\ pc = "done")
        => ret.kind \in {"bool", "dict"}

\* ---- C4 ----------------------------------------------------------------
ActionFailed ==
    \/ Printed("Server not responding")
    \/ Printed("Server failed to start")
    \/ Printed("Failed to get status")
    \/ Printed("Getting status...") /\ ~Printed("Status: online")
    \/ Printed("Inference test failed")

\* C4 (as claimed): when the command-line entry point has run its action,
\* the process ends with exit code 0 if the action succeeded and 1 if it
\* failed (not responding, not ready in time, status not online, inference
\* failed).
C4_ExitCodeTellsSuccess ==
    (op = "main" /\ pc = "done" /\ ret.kind = "exit")
        => (ret.val = 1 <=> ActionFailed)

C6_WaitProtocol ==
    LET n == Len(trace)
    IN  /\ \A i \in 1..n : trace[i].ev = "check" => trace[i].at < timeout
        /\ \A i \in 1..n : trace[i].ev = "sleep" => trace[i].dur = check_interval
        /\ \A i \in 1..(n - 1) :
             /\ trace[i].ev = "check" => (trace[i].res = "false" /\ trace[i + 1].ev = "sleep")
             /\ trace[i].ev = "sleep" => trace[i + 1].ev = "check"
        /\ HealthyCheckSeen => pc \notin {"wait_loop", "wait_sleep"}
        /\ (WaitEnded /\ ret.kind = "bool") =>
             /\ ret.val <=> HealthyCheckSeen
             /\ ~ret.val => elapsed >= timeout

C6_Witness ==
    /\ op = "wait_for_server_ready" /\ pc = "done"
    /\ ret = RetBool(TRUE)
    /\ Len(trace) >= 3
    /\ trace[Len(trace)].res = "true"

\* ---- C7 ----------------------------------------------------------------
\* C7 (as claimed): a call of wait_for_server_ready with timeout = 0, or
\* with a timeout smaller than check_interval, in which no health check
\* succeeds, returns false after at most one health check.
C7_ShortTimeoutReturnsFalse ==
    (WaitEnded /\ timeout < check_interval /\ ~HealthyCheckSeen)
        => (ret = RetBool(FALSE) /\ NumChecks <= 1)

\* ---- C8 ----------------------------------------------------------------
\* C8 (as claimed): the elapsed timeout is the only thing that ends an
\* unsuccessful wait: a call of wait_for_server_ready in which no health
\* check succeeded ends by returning false, with elapsed >= timeout.
C8_OnlyTimeoutEndsWait ==
    (WaitEnded /\ ~HealthyCheckSeen)
        => (ret.kind = "bool" /\ ret.val = FALSE /\ elapsed >= timeout)

\* ---- C9 ----------------------------------------------------------------
\* C9: constructing a VLLMClient never raises because of the lookup, and
\* model_name is the id of the first model for HTTP 200 with a non-empty
\* list whose first entry has an id, and "default" in every other case.
C9_ConstructionFallsBack ==
    (op = "VLLMClient" /\ pc = "done") =>
        /\ ret.kind # "raise"
        /\ IF /\ inGet.kind = "resp" /\ inGet.code = 200 /\ inGet.body.valid
              /\ Get(inGet.body.obj, "data", <<>>) # <<>>
              /\ "id" \in DOMAIN inGet.body.obj["data"][1]
           THEN model_name = inGet.body.obj["data"][1]["id"]
           ELSE model_name = "default"

C9_Witness ==
    /\ op = "VLLMClient" /\ pc = "done"
    /\ inGet.kind = "exc" /\ inGet.exc = "ValueError"
    /\ model_name = "default"

\* ---- C10 ---------------------------------------------------------------
RequestCounts ==
    pc = "done" =>
        /\ op \in {"check_server_health", "get_server_status"} => (nGet = 1 /\ nPost = 0)
        /\ op = "chat" => (nGet = 0 /\ nPost = 1 /\ posted = model_name)
        /\ op = "test_inference" =>
             /\ nGet <= 1 /\ nPost <= 1
             /\ arg_model # None => nGet = 0
             /\ (nGet = 1 /\ inGet.kind = "exc") => nPost = 0

ChatKeepsModelName == (op' = "chat") => (model_name' = model_name)

\* C10: no operation retries: check_server_health and get_server_status
\* issue exactly one GET; chat issues exactly one POST and no GET, naming
\* the cached model, which it leaves unchanged; test_inference issues at
\* most one GET and at most one POST, no GET when model_name is supplied,
\* and no POST after a lookup that raised.
C10_NoRetries == []RequestCounts /\ [][ChatKeepsModelName]_vars

C10_Witness ==
    /\ pc = "done"
    /\ op = "test_inference" /\ arg_model = None
    /\ nGet = 1 /\ nPost = 1
    /\ ret.kind = "dict" /\ ret.val["success"] = FALSE

(***************************************************************************)
(* Termination of the polling loop: with the loop's own steps fair (a      *)
(* health check and a sleep both complete), every wait ends.               *)
(***************************************************************************)
WaitStep ==
    \/ \E o \in GetOutcomes, d \in 0..MaxDur : WaitCheck(o, d)
    \/ WaitSleep
    \/ WaitTimeout

FairSpec == Spec /\ WF_vars(WaitStep)

WaitTerminates == (pc \in {"wait_loop", "wait_sleep"}) ~> WaitEnded
====
